---- MODULE Spec2Model ----
(***************************************************************************)
(* Half-precision codec of Source/CBOR/SwiftCBOR.h.                        *)
(*                                                                         *)
(* loadFromF16(pointer) reads the uint16_t slot at pointer through an      *)
(* lvalue of type __fp16 and returns it as a float.  storeAsF16(value,     *)
(* pointer) assigns the float value to the slot through an lvalue of type  *)
(* __fp16.                                                                 *)
(*                                                                         *)
(* __fp16 is the compiler's storage-only IEEE 754-2008 binary16 type.      *)
(* Reading it as a float is the widening conversion binary16 -> binary32;  *)
(* assigning a float to it is the narrowing conversion binary32 ->         *)
(* binary16 in the default rounding mode (round to nearest, ties to even). *)
(* Both conversions are modelled bit by bit, as the conversion instruction *)
(* (or the compiler's soft-float routine) computes them; a NaN is quieted  *)
(* and keeps its top payload bits.                                         *)
(*                                                                         *)
(* The pointer casts reinterpret the uint16_t slot in place.  The callers  *)
(* are Swift code that passes the address of a UInt16: no C access of the  *)
(* slot as uint16_t is in scope of the inlined body, so the only outcome   *)
(* of the access through the __fp16 lvalue is the slot's 16 bits, read or  *)
(* written unchanged.                                                      *)
(*                                                                         *)
(* A binary16 value is its 16-bit pattern, 0..65535.  A binary32 value is  *)
(* the record of its three fields (sign, exp, man), so that all arithmetic *)
(* stays below 2^31.                                                       *)
(***************************************************************************)
EXTENDS Integers, Sequences, FiniteSets, TLC

(***************************************************************************)
(* Bounds of the model.                                                    *)
(***************************************************************************)
NThreads == 2
NSlots == 2
MaxH == 3
ExpMargin == 4

(***************************************************************************)
(* Format constants of binary16 (__fp16) and binary32 (float).             *)
(***************************************************************************)
F16ManBits == 10
F16ExpMax == 31
F16Bias == 15
F32ManBits == 23
F32ExpMax == 255
F32Bias == 127

Threads == 1..NThreads
Slots == 0..(NSlots - 1)
UInt16 == 0..65535

F16Sign(b) == b \div (2 ^ 15)
F16Exp(b) == (b \div (2 ^ F16ManBits)) % (F16ExpMax + 1)
F16Man(b) == b % (2 ^ F16ManBits)

F32(s, e, m) == [sign |-> s, exp |-> e, man |-> m]

(* Left shifts needed to bring the leading one of a binary16 subnormal     *)
(* mantissa to the hidden-bit position.                                    *)
RECURSIVE NormShift(_)
NormShift(m) == IF m >= 2 ^ F16ManBits THEN 0 ELSE 1 + NormShift(2 * m)

(***************************************************************************)
(* The conversion __fp16 -> float of line 10.                              *)
(***************************************************************************)
(* A NaN stays a NaN: the payload moves to the top of the wider mantissa   *)
(* and the quiet bit is set.                                               *)
F16NaNToF32(s, m) ==
    F32(s, F32ExpMax,
        (2 ^ (F32ManBits - 1))
          + (m % (2 ^ (F16ManBits - 1))) * (2 ^ (F32ManBits - F16ManBits)))

(* A subnormal is normalised: the mantissa is shifted up to its leading    *)
(* one, which becomes the hidden bit, and the exponent is lowered by the   *)
(* shift.                                                                  *)
F16SubnormalToF32Flushed(s, m) == F32(s, 0, 0)

F16SubnormalToF32(s, m) ==
    LET k == NormShift(m)
    IN  F32(s, F32Bias - F16Bias + 1 - k,
            ((m * (2 ^ k)) % (2 ^ F16ManBits)) * (2 ^ (F32ManBits - F16ManBits)))

F16ToF32NoSpecials(b) ==
    LET s == F16Sign(b)
        e == F16Exp(b)
        m == F16Man(b)
    IN  IF e = 0
        THEN IF m = 0 THEN F32(s, 0, 0) ELSE F16SubnormalToF32(s, m)
        ELSE F32(s, e + F32Bias - F16Bias, m * (2 ^ (F32ManBits - F16ManBits)))

F16ToF32SignDropped(b) ==
    LET e == F16Exp(b)
        m == F16Man(b)
    IN  IF e = F16ExpMax
        THEN IF m = 0 THEN F32(0, F32ExpMax, 0) ELSE F16NaNToF32(0, m)
        ELSE IF e = 0
        THEN IF m = 0 THEN F32(0, 0, 0) ELSE F16SubnormalToF32(0, m)
        ELSE F32(0, e + F32Bias - F16Bias, m * (2 ^ (F32ManBits - F16ManBits)))

F16ToF32(b) ==
    LET s == F16Sign(b)
        e == F16Exp(b)
        m == F16Man(b)
    IN  IF e = F16ExpMax
        THEN IF m = 0 THEN F32(s, F32ExpMax, 0) ELSE F16NaNToF32(s, m)
        ELSE IF e = 0
        THEN IF m = 0 THEN F32(s, 0, 0) ELSE F16SubnormalToF32(s, m)
        ELSE F32(s, e + F32Bias - F16Bias, m * (2 ^ (F32ManBits - F16ManBits)))

(***************************************************************************)
(* The conversion float -> __fp16 of line 11.                              *)
(***************************************************************************)
(* Round the quotient q, with remainder rem of a divisor 2*half, to        *)
(* nearest, ties to even.                                                  *)
RoundHalfUp(q, rem, half) == IF rem >= half THEN q + 1 ELSE q

RoundNearestEven(q, rem, half) ==
    IF rem > half \/ (rem = half /\ q % 2 = 1) THEN q + 1 ELSE q

F16Infinity == F16ExpMax * (2 ^ F16ManBits)

(* A NaN stays a NaN: the top payload bits are kept and the quiet bit is   *)
(* set, so the mantissa is nonzero whatever the dropped low bits were.     *)
F32NaNToF16PayloadOnly(x) ==
    F16Infinity + (x.man \div (2 ^ (F32ManBits - F16ManBits)))

F32NaNToF16(x) ==
    F16Infinity + (2 ^ (F16ManBits - 1))
      + ((x.man \div (2 ^ (F32ManBits - F16ManBits))) % (2 ^ (F16ManBits - 1)))

(* The magnitude (low 15 bits) of the result for a finite x.  The rounded  *)
(* mantissa is added to the exponent field, so a carry out of the mantissa *)
(* increments the exponent, up to the infinity pattern.                    *)
F32FiniteToF16Saturating(x) ==
    LET w == F32ManBits - F16ManBits
        full == IF x.exp = 0 THEN x.man ELSE (2 ^ F32ManBits) + x.man
        he == (IF x.exp = 0 THEN 1 ELSE x.exp) - F32Bias + F16Bias
    IN  IF he >= F16ExpMax
        THEN F16Infinity - 1
        ELSE IF he >= 1
        THEN LET r == RoundNearestEven(he * (2 ^ F16ManBits) + (x.man \div (2 ^ w)),
                                       x.man % (2 ^ w), 2 ^ (w - 1))
             IN  IF r >= F16Infinity THEN F16Infinity - 1 ELSE r
        ELSE LET sh == w + 1 - he
             IN  IF sh > F32ManBits + 1
                 THEN 0
                 ELSE RoundNearestEven(full \div (2 ^ sh), full % (2 ^ sh), 2 ^ (sh - 1))

F32FiniteToF16NoCarry(x) ==
    LET w == F32ManBits - F16ManBits
        full == IF x.exp = 0 THEN x.man ELSE (2 ^ F32ManBits) + x.man
        he == (IF x.exp = 0 THEN 1 ELSE x.exp) - F32Bias + F16Bias
    IN  IF he >= F16ExpMax
        THEN F16Infinity
        ELSE IF he >= 1
        THEN he * (2 ^ F16ManBits)
               + (RoundNearestEven(x.man \div (2 ^ w), x.man % (2 ^ w), 2 ^ (w - 1))
                    % (2 ^ F16ManBits))
        ELSE LET sh == w + 1 - he
             IN  IF sh > F32ManBits + 1
                 THEN 0
                 ELSE RoundNearestEven(full \div (2 ^ sh), full % (2 ^ sh), 2 ^ (sh - 1))

F32FiniteToF16NoSubnormal(x) ==
    LET w == F32ManBits - F16ManBits
        he == (IF x.exp = 0 THEN 1 ELSE x.exp) - F32Bias + F16Bias
    IN  IF he >= F16ExpMax
        THEN F16Infinity
        ELSE IF he >= 1
        THEN RoundNearestEven(he * (2 ^ F16ManBits) + (x.man \div (2 ^ w)),
                              x.man % (2 ^ w), 2 ^ (w - 1))
        ELSE 0

F32FiniteToF16(x) ==
    LET w == F32ManBits - F16ManBits
        full == IF x.exp = 0 THEN x.man ELSE (2 ^ F32ManBits) + x.man
        he == (IF x.exp = 0 THEN 1 ELSE x.exp) - F32Bias + F16Bias
    IN  IF he >= F16ExpMax
        THEN F16Infinity
        ELSE IF he >= 1
        THEN RoundNearestEven(he * (2 ^ F16ManBits) + (x.man \div (2 ^ w)),
                              x.man % (2 ^ w), 2 ^ (w - 1))
        ELSE LET sh == w + 1 - he
             IN  IF sh > F32ManBits + 1
                 THEN 0
                 ELSE RoundNearestEven(full \div (2 ^ sh), full % (2 ^ sh), 2 ^ (sh - 1))

F32ToF16(x) ==
    x.sign * (2 ^ 15)
      + (IF x.exp = F32ExpMax
         THEN IF x.man = 0 THEN F16Infinity ELSE F32NaNToF16(x)
         ELSE F32FiniteToF16(x))

(***************************************************************************)
(* Memory is an array of uint16_t slots; a pointer is a slot index.  The   *)
(* assignment through the __fp16 lvalue writes the 16 bits of the one slot *)
(* the pointer refers to.                                                  *)
(***************************************************************************)
WriteF16Wide(memory, pointer, h) ==
    [s \in DOMAIN memory |->
        IF s = pointer THEN h ELSE IF s = pointer + 1 THEN 0 ELSE memory[s]]

WriteF16(memory, pointer, h) == [memory EXCEPT ![pointer] = h]

(***************************************************************************)
(* State.  Each thread runs a program, a sequence of calls made by the     *)
(* (out of scope) serialization reader and writer:                         *)
(*   load      loadFromF16(ptr)                                            *)
(*   store     storeAsF16(val, ptr)                                        *)
(*   restore   storeAsF16(r, ptr), r the value the thread's last           *)
(*             loadFromF16 returned                                        *)
(* A call takes two steps: loadFromF16 reads the slot into a __fp16        *)
(* temporary and then widens it into the return value; storeAsF16 narrows  *)
(* its argument into a __fp16 temporary and then writes the slot.  The     *)
(* temporary is a register or a stack cell of the calling thread.          *)
(***************************************************************************)
VARIABLES
    mem,    \* mem[s]: the uint16_t slot s
    mem0,   \* the memory before any call (history, never written)
    prog,   \* prog[t]: the calls of thread t (never written)
    ip,     \* ip[t]: index in prog[t] of the call thread t is in, or makes next
    mid,    \* mid[t]: thread t has taken the first step of its call
    reg,    \* reg[i]: the __fp16 temporary i
    ret     \* ret[t]: what the last loadFromF16 of thread t returned

vars == <<mem, mem0, prog, ip, mid, reg, ret>>

TempShared(t) == 1

Temp(t) == t

Running(t) == ip[t] <= Len(prog[t])
Call(t) == prog[t][ip[t]]
Argument(t) == IF Call(t).op = "restore" THEN ret[t] ELSE Call(t).val

PlusZero == F32(0, 0, 0)
LoadCall(p) == [op |-> "load", ptr |-> p, val |-> PlusZero]
StoreCall(v, p) == [op |-> "store", ptr |-> p, val |-> v]
RestoreCall(p) == [op |-> "restore", ptr |-> p, val |-> PlusZero]

loadFromF16_read(t) ==
    /\ Running(t) /\ Call(t).op = "load" /\ ~mid[t]
    /\ reg' = [reg EXCEPT ![Temp(t)] = mem[Call(t).ptr]]
    /\ mid' = [mid EXCEPT ![t] = TRUE]
    /\ UNCHANGED <<mem, mem0, prog, ip, ret>>

loadFromF16_return(t) ==
    /\ Running(t) /\ Call(t).op = "load" /\ mid[t]
    /\ ret' = [ret EXCEPT ![t] = F16ToF32(reg[Temp(t)])]
    /\ mid' = [mid EXCEPT ![t] = FALSE]
    /\ ip' = [ip EXCEPT ![t] = @ + 1]
    /\ UNCHANGED <<mem, mem0, prog, reg>>

storeAsF16_convert(t) ==
    /\ Running(t) /\ Call(t).op # "load" /\ ~mid[t]
    /\ reg' = [reg EXCEPT ![Temp(t)] = F32ToF16(Argument(t))]
    /\ mid' = [mid EXCEPT ![t] = TRUE]
    /\ UNCHANGED <<mem, mem0, prog, ip, ret>>

storeAsF16_write(t) ==
    /\ Running(t) /\ Call(t).op # "load" /\ mid[t]
    /\ mem' = WriteF16(mem, Call(t).ptr, reg[Temp(t)])
    /\ mid' = [mid EXCEPT ![t] = FALSE]
    /\ ip' = [ip EXCEPT ![t] = @ + 1]
    /\ UNCHANGED <<mem0, prog, reg, ret>>

Next ==
    \E t \in Threads :
        \/ loadFromF16_read(t)
        \/ loadFromF16_return(t)
        \/ storeAsF16_convert(t)
        \/ storeAsF16_write(t)

NextEncode == \E t \in Threads : storeAsF16_convert(t) \/ storeAsF16_write(t)

Idle == [t \in Threads |-> <<>>]

InitLocal ==
    /\ mem0 = mem
    /\ ip = [t \in Threads |-> 1]
    /\ mid = [t \in Threads |-> FALSE]
    /\ reg = [t \in Threads |-> 0]
    /\ ret = [t \in Threads |-> PlusZero]

(***************************************************************************)
(* Spec: every thread makes one call, a load or a store, on any slot.      *)
(***************************************************************************)
One == F32(0, F32Bias, 0)
SmallFloats == {One, F32(1, F32Bias - 25, 1)}
SmallHalves == {1, 64512}
SmallCalls ==
    {LoadCall(p) : p \in Slots} \cup {StoreCall(v, p) : v \in SmallFloats, p \in Slots}

Init ==
    /\ mem \in [Slots -> SmallHalves]
    /\ prog \in [Threads -> {<<c>> : c \in SmallCalls}]
    /\ InitLocal

Spec == Init /\ [][Next]_vars

(***************************************************************************)
(* SpecRoundTrip: one thread loads slot 0, holding any 16-bit pattern,     *)
(* and stores what it got into slot 1.                                     *)
(***************************************************************************)
InitRoundTrip ==
    /\ mem \in {[s \in Slots |-> IF s = 0 THEN b ELSE 0] : b \in UInt16}
    /\ prog = [Idle EXCEPT ![1] = <<LoadCall(0), RestoreCall(1)>>]
    /\ InitLocal

SpecRoundTrip == InitRoundTrip /\ [][Next]_vars

(***************************************************************************)
(* SpecEncode: one thread stores x into slot 0 and then y into slot 1.  x  *)
(* is drawn from a sample of the binary32 values: both signs, the exponent *)
(* fields around the binary16 range and at both ends, and the mantissas    *)
(* with a short bit pattern at any position, their neighbours and their    *)
(* complements.  y is the value next to x, the negation of x, or an        *)
(* anchor.                                                                 *)
(***************************************************************************)
ManBase == {(h * (2 ^ j)) % (2 ^ F32ManBits) : h \in 0..MaxH, j \in 0..(F32ManBits - 1)}
ManNear == ManBase \cup {m + 1 : m \in ManBase} \cup {m - 1 : m \in ManBase}
ManSample ==
    {m \in ManNear \cup {(2 ^ F32ManBits) - 1 - m : m \in ManNear} :
        m >= 0 /\ m < 2 ^ F32ManBits}
ExpSample ==
    {e \in 0..F32ExpMax :
        \/ e <= ExpMargin
        \/ e >= F32ExpMax - ExpMargin
        \/ /\ e >= F32Bias - F16Bias - F16ManBits - ExpMargin
           /\ e <= F32Bias + F16Bias + 1 + ExpMargin}
F32Sample == {F32(s, e, m) : s \in 0..1, e \in ExpSample, m \in ManSample}

Negated(x) == F32(1 - x.sign, x.exp, x.man)
NextMagnitude(x) ==
    IF x.man + 1 < 2 ^ F32ManBits THEN F32(x.sign, x.exp, x.man + 1)
    ELSE IF x.exp < F32ExpMax THEN F32(x.sign, x.exp + 1, 0)
    ELSE x
Anchors == SmallFloats
Partners(x) == {NextMagnitude(x), Negated(x)} \cup Anchors

InitEncode ==
    /\ mem = [s \in Slots |-> 0]
    /\ \E x \in F32Sample : \E y \in Partners(x) :
           prog = [Idle EXCEPT ![1] = <<StoreCall(x, 0), StoreCall(y, 1)>>]
    /\ InitLocal

SpecEncode == InitEncode /\ [][NextEncode]_vars

(***************************************************************************)
(* What a pattern denotes, for the statements below.  A finite magnitude   *)
(* is sig * 2^exp, kept as the pair, so that all arithmetic stays below    *)
(* 2^31.                                                                   *)
(***************************************************************************)
Mag(sg, ex) == [sig |-> sg, exp |-> ex]

RECURSIVE BitLen(_)
BitLen(n) == IF n = 0 THEN 0 ELSE 1 + BitLen(n \div 2)

(* -1, 0 or 1 as magnitude a is below, equal to or above magnitude b.      *)
CmpMag(a, b) ==
    IF a.sig = 0 \/ b.sig = 0
    THEN (IF a.sig = b.sig THEN 0 ELSE IF a.sig = 0 THEN -1 ELSE 1)
    ELSE LET ta == BitLen(a.sig) + a.exp
             tb == BitLen(b.sig) + b.exp
             lo == IF a.exp < b.exp THEN a.exp ELSE b.exp
             sa == a.sig * (2 ^ (a.exp - lo))
             sb == b.sig * (2 ^ (b.exp - lo))
         IN  IF ta # tb THEN (IF ta < tb THEN -1 ELSE 1)
             ELSE IF sa = sb THEN 0
             ELSE IF sa < sb THEN -1 ELSE 1

(* binary16: (1 + m/1024) * 2^(e-15) for e > 0, m * 2^-24 for e = 0.       *)
F16Magnitude(b) ==
    IF F16Exp(b) = 0 THEN Mag(F16Man(b), -24)
    ELSE Mag(1024 + F16Man(b), F16Exp(b) - 25)

(* binary32: (1 + m/2^23) * 2^(e-127) for e > 0, m * 2^-149 for e = 0.     *)
F32Magnitude(x) ==
    IF x.exp = 0 THEN Mag(x.man, -149)
    ELSE Mag(8388608 + x.man, x.exp - 150)

F16IsNaN(b) == F16Exp(b) = 31 /\ F16Man(b) # 0
F16IsFinite(b) == F16Exp(b) # 31
F32IsNaN(x) == x.exp = 255 /\ x.man # 0
F32IsFinite(x) == x.exp # 255

(***************************************************************************)
(* SpecRoundTrip: the pattern b loaded, the float returned, the pattern    *)
(* written back.                                                           *)
(***************************************************************************)
Loaded == ip[1] >= 2
WrittenBack == ip[1] = 3
PatternB == mem0[0]
Returned == ret[1]
PatternOut == mem[1]

\* C1: storeAsF16(loadFromF16(b)) writes b itself when b is not a NaN pattern
\* (signed zeros, subnormals and infinities included), and writes a NaN
\* pattern when b is a NaN pattern.
C1_RoundTrip ==
    WrittenBack =>
        /\ ~F16IsNaN(PatternB) => PatternOut = PatternB
        /\ F16IsNaN(PatternB) => F16IsNaN(PatternOut)

\* A negative subnormal has made the round trip.
C1_Witness == WrittenBack /\ PatternB = 32769 /\ PatternOut = 32769

\* C2: for a pattern b whose exponent field is not all ones, loadFromF16
\* returns the finite binary32 value of the sign of b and of magnitude
\* 2^(e-15) * (1 + m/1024) for e > 0 and m * 2^-24 for e = 0; a subnormal b
\* gives a nonzero normalized value; 0x0001 gives 2^-24, 0x3C00 gives 1.0,
\* 0x0000 gives +0.0 and 0x8000 gives -0.0.
C2_DecodeExact ==
    (Loaded /\ F16IsFinite(PatternB)) =>
        /\ F32IsFinite(Returned)
        /\ Returned.sign = F16Sign(PatternB)
        /\ CmpMag(F32Magnitude(Returned), F16Magnitude(PatternB)) = 0
        /\ (F16Exp(PatternB) = 0 /\ F16Man(PatternB) # 0) => Returned.exp # 0
        /\ PatternB = 1 => Returned = F32(0, 103, 0)
        /\ PatternB = 15360 => Returned = F32(0, 127, 0)
        /\ PatternB = 0 => Returned = F32(0, 0, 0)
        /\ PatternB = 32768 => Returned = F32(1, 0, 0)

\* The smallest subnormal has been loaded as 2^-24.
C2_Witness == Loaded /\ PatternB = 1 /\ Returned = F32(0, 103, 0)

\* C3: for a pattern b whose exponent field is all ones, loadFromF16 returns
\* the infinity of the sign of b when the mantissa of b is zero, and a
\* binary32 NaN (exponent field 0xFF, mantissa nonzero) otherwise.
C3_DecodeSpecial ==
    (Loaded /\ ~F16IsFinite(PatternB)) =>
        /\ F16Man(PatternB) = 0 => Returned = F32(F16Sign(PatternB), 255, 0)
        /\ F16Man(PatternB) # 0 => F32IsNaN(Returned)
        /\ PatternB = 31744 => Returned = F32(0, 255, 0)
        /\ PatternB = 64512 => Returned = F32(1, 255, 0)

\* A signalling NaN with the smallest payload has been loaded as a NaN.
C3_Witness == Loaded /\ PatternB = 31745 /\ F32IsNaN(Returned)

(***************************************************************************)
(* SpecEncode: the i-th store of thread 1 has returned; its argument and   *)
(* the pattern it wrote.                                                   *)
(***************************************************************************)
Stored(i) == ip[1] > i
ValueIn(i) == prog[1][i].val
PatternAt(i) == mem[prog[1][i].ptr]

(* The low 15 bits of a pattern: exponent and mantissa fields.             *)
LowBits(h) == h % 32768

(* The magnitude halfway between the finite binary16 magnitude of low bits *)
(* k and the next one up (for k = 0x7BFF: 65520, halfway to 2^16).         *)
Midpoint(k) == Mag(2 * F16Magnitude(k).sig + 1, F16Magnitude(k).exp - 1)

OverflowThreshold == Mag(65520, 0)
UnderflowThreshold == Mag(1, -25)

BelowOverflow(x) ==
    F32IsFinite(x) /\ CmpMag(F32Magnitude(x), OverflowThreshold) < 0

\* C4: for finite x of magnitude below 65520, storeAsF16 writes the sign of
\* x and the finite binary16 magnitude nearest to that of x: x is not above
\* the midpoint to the next magnitude up and not below the midpoint to the
\* next one down, and when x is on a midpoint the written mantissa is even.
\* A rounding carry goes into the exponent: the value just below 2.0 gives
\* 0x4000; 1.0 gives 0x3C00 and -1.0 gives 0xBC00.
C4_RoundNearestEven ==
    \A i \in 1..2 :
        (Stored(i) /\ BelowOverflow(ValueIn(i))) =>
            LET x == F32Magnitude(ValueIn(i))
                h == PatternAt(i)
                k == LowBits(h)
            IN  /\ F16Sign(h) = ValueIn(i).sign
                /\ F16IsFinite(h)
                /\ CmpMag(x, Midpoint(k)) <= 0
                /\ CmpMag(x, Midpoint(k)) = 0 => k % 2 = 0
                /\ k > 0 => CmpMag(x, Midpoint(k - 1)) >= 0
                /\ (k > 0 /\ CmpMag(x, Midpoint(k - 1)) = 0) => k % 2 = 0
                /\ ValueIn(i) = F32(0, 127, 8388607) => h = 16384
                /\ ValueIn(i) = F32(0, 127, 0) => h = 15360
                /\ ValueIn(i) = F32(1, 127, 0) => h = 48128

\* 1 + 3 * 2^-11, halfway between 0x3C01 and 0x3C02, has been stored as the
\* even one.
C4_Witness == Stored(1) /\ ValueIn(1) = F32(0, 127, 12288) /\ PatternAt(1) = 15362

\* C5: for non-NaN x of magnitude at least 65520, infinities included,
\* storeAsF16 writes 0x7C00 for positive and 0xFC00 for negative x; for
\* finite x of magnitude below 65520 the written pattern is finite; 65504.0
\* gives 0x7BFF.
C5_Overflow ==
    \A i \in 1..2 :
        (Stored(i) /\ ~F32IsNaN(ValueIn(i))) =>
            /\ ~BelowOverflow(ValueIn(i)) =>
                   PatternAt(i) = ValueIn(i).sign * 32768 + 31744
            /\ BelowOverflow(ValueIn(i)) => F16IsFinite(PatternAt(i))
            /\ ValueIn(i) = F32(0, 142, 8380416) => PatternAt(i) = 31743

\* -65520.0, the smallest magnitude that overflows, has been stored as
\* minus infinity.
C5_Witness == Stored(1) /\ ValueIn(1) = F32(1, 142, 8384512) /\ PatternAt(1) = 64512

AtMostUnderflow(x) ==
    F32IsFinite(x) /\ CmpMag(F32Magnitude(x), UnderflowThreshold) <= 0

\* C6: for x of magnitude at most 2^-25 (binary32 subnormals and zeros
\* included) storeAsF16 writes 0x0000 when the sign bit of x is clear and
\* 0x8000 when it is set; for non-NaN x of magnitude above 2^-25 the
\* exponent and mantissa fields written are not both zero; 2^-24 gives
\* 0x0001.
C6_Underflow ==
    \A i \in 1..2 :
        (Stored(i) /\ ~F32IsNaN(ValueIn(i))) =>
            /\ AtMostUnderflow(ValueIn(i)) => PatternAt(i) = ValueIn(i).sign * 32768
            /\ ~AtMostUnderflow(ValueIn(i)) => LowBits(PatternAt(i)) # 0
            /\ ValueIn(i) = F32(0, 103, 0) => PatternAt(i) = 1

\* The value next above 2^-25 has been stored as the smallest subnormal.
C6_Witness == Stored(1) /\ ValueIn(1) = F32(0, 102, 1) /\ PatternAt(1) = 1

\* C7: for a binary32 NaN x, of either sign, quiet or signalling, storeAsF16
\* writes a pattern with exponent field all ones and nonzero mantissa.
C7_EncodeNaN ==
    \A i \in 1..2 :
        (Stored(i) /\ F32IsNaN(ValueIn(i))) => F16IsNaN(PatternAt(i))

\* A negative signalling NaN whose only payload bit is the lowest one has
\* been stored as a NaN pattern.
C7_Witness == Stored(1) /\ ValueIn(1) = F32(1, 255, 1) /\ F16IsNaN(PatternAt(1))

(* The order of the non-NaN values, through a key that grows with the      *)
(* value (both zeros have key 0).                                          *)
F32Key(x) ==
    LET k == x.exp * 8388608 + x.man IN IF x.sign = 1 THEN 0 - k ELSE k
F16Key(h) == IF F16Sign(h) = 1 THEN 0 - LowBits(h) ELSE LowBits(h)
FlipSign(h) == IF h >= 32768 THEN h - 32768 ELSE h + 32768

\* C10: for non-NaN x and y, x <= y implies that the binary16 value written
\* for x is at most the one written for y; and the pattern written for -x
\* is the pattern written for x with bit 15 flipped.
C10_OrderAndSign ==
    (Stored(2) /\ ~F32IsNaN(ValueIn(1)) /\ ~F32IsNaN(ValueIn(2))) =>
        /\ F32Key(ValueIn(1)) <= F32Key(ValueIn(2)) =>
               F16Key(PatternAt(1)) <= F16Key(PatternAt(2))
        /\ F32Key(ValueIn(2)) <= F32Key(ValueIn(1)) =>
               F16Key(PatternAt(2)) <= F16Key(PatternAt(1))
        /\ ValueIn(2) = Negated(ValueIn(1)) => PatternAt(2) = FlipSign(PatternAt(1))

\* The largest value below 2.0 and the value next to it, 2.0, have both been
\* stored as 0x4000.
C10_Witness ==
    /\ Stored(2)
    /\ ValueIn(1) = F32(0, 127, 8388607) /\ ValueIn(2) = F32(0, 128, 0)
    /\ PatternAt(1) = 16384 /\ PatternAt(2) = 16384

(***************************************************************************)
(* Spec: frame and concurrency.                                            *)
(***************************************************************************)
(* Thread t takes a step; the step is the return of its storeAsF16.        *)
Steps(t) == ip'[t] # ip[t] \/ mid'[t] # mid[t]
StoreReturns(t) == Call(t).op # "load" /\ ip'[t] = ip[t] + 1

C8_FrameStep ==
    \A t \in Threads :
        Steps(t) =>
            IF StoreReturns(t)
            THEN mem' = [mem EXCEPT ![Call(t).ptr] = F32ToF16(Argument(t))]
            ELSE mem' = mem

\* C8: a storeAsF16(value, pointer) changes memory only when it returns, and
\* then only the slot pointer refers to, which becomes the binary16 pattern
\* of value whatever the slot held; no step of a loadFromF16 changes memory.
C8_Frame == [][C8_FrameStep]_vars

\* A storeAsF16 has returned and has changed its slot, and another slot
\* still holds its nonzero initial pattern.
C8_Witness ==
    \E t \in Threads :
        /\ ip[t] = 2 /\ prog[t][1].op = "store"
        /\ mem[prog[t][1].ptr] # mem0[prog[t][1].ptr]
        /\ \E s \in Slots : s # prog[t][1].ptr /\ mem[s] = mem0[s] /\ mem[s] # 0

(* The caller's part: no slot a storeAsF16 writes is the slot of a call of *)
(* another thread.                                                         *)
RaceFree ==
    \A t \in Threads, u \in Threads :
        \A i \in DOMAIN prog[t], j \in DOMAIN prog[u] :
            (t # u /\ prog[t][i].op # "load") => prog[t][i].ptr # prog[u][j].ptr

ThreadStep(t) ==
    \/ loadFromF16_read(t)
    \/ loadFromF16_return(t)
    \/ storeAsF16_convert(t)
    \/ storeAsF16_write(t)

\* C9: when the calls of the threads are race free, then in every
\* interleaving a loadFromF16 that has returned has returned the binary32
\* value of the pattern its slot held at the start, the slot of a storeAsF16
\* that has returned holds the binary16 pattern of its argument, and every
\* thread that has not finished can take its next step.
C9_Concurrent ==
    RaceFree =>
        \A t \in Threads :
            /\ (ip[t] = 2 /\ prog[t][1].op = "load") =>
                   ret[t] = F16ToF32(mem0[prog[t][1].ptr])
            /\ (ip[t] = 2 /\ prog[t][1].op = "store") =>
                   mem[prog[t][1].ptr] = F32ToF16(prog[t][1].val)
            /\ Running(t) => ENABLED ThreadStep(t)

\* In a race free run a storeAsF16 has returned and has changed its slot
\* while the loadFromF16 of another thread is between its two steps.
C9_Witness ==
    /\ RaceFree
    /\ \E t \in Threads, u \in Threads :
           /\ ip[t] = 2 /\ prog[t][1].op = "store"
           /\ mem[prog[t][1].ptr] = F32ToF16(prog[t][1].val)
           /\ mem[prog[t][1].ptr] # mem0[prog[t][1].ptr]
           /\ ip[u] = 1 /\ prog[u][1].op = "load" /\ mid[u]

====
